---------------------------- MODULE Spec2Model ----------------------------
(***************************************************************************)
(* A model of the Friction simulation's physical model                     *)
(* (src/js/friction/model/FrictionModel.js): the top book's position, the  *)
(* distance between the books, the temperature (amplitude), the contact    *)
(* flag and the queue of rows of atoms that may still evaporate.           *)
(* The sound generator that listens to the model's position and contact   *)
(* (src/unnamed/part_000) is modelled beside it.                           *)
(*                                                                         *)
(* Numbers.  The source computes in IEEE doubles.  Here every real is a    *)
(* fixed-point integer with FP units per 1.0 (a position of 600 is 60000,  *)
(* a temperature of 7 is 700, a dt of 0.5 is 50), and a product is rounded *)
(* to the nearest unit, as a double rounds at its own precision.  Sums and *)
(* differences of grid values are exact, as they are for the doubles the   *)
(* inputs below stand for.                                                 *)
(***************************************************************************)
EXTENDS Integers, Sequences, FiniteSets, TLC

\* ------------------------------------------------------------- bounds ----
\* Atoms kept per evaporable row (the source's rows hold 29, 29, 24 and 9).
MaxRowAtoms == 2
\* Calls of the model's operations made in one run.
MaxCalls == 6
\* the calls of a run that rubs the book until the queue is empty
MaxHotCalls == 11
\* position and contact changes the sound generator hears in one run
MaxRubCalls == 4
\* the longest time, in milliseconds, a run lets pass without a velocity update
MaxElapsed == 128
\* the first frames of a run of the cooling sound that may have no duration
MaxZeroFrames == 2
\* the time, in ticks, a run of the describer lasts
MaxDescriberTime == 5
\* an atom flying off is kept at this distance left of and above the origin
\* once it is beyond it
MaxAtomDistance == 500

\* ---------------------------------------------------------- constants ----
\* Units per 1.0 of every fixed-point number of the model.
FP == 100
DISTANCE_Y == 2000
DISTANCE_INITIAL == 2500
AMPLITUDE_MIN == 100
AMPLITUDE_EVAPORATE == 700
AMPLITUDE_MAX == 1200
COOLING_RATE == 20
\* 0.0075, in units of 1/10000
HEATING_MULTIPLIER == 75
EVAPORATION_AMPLITUDE_REDUCTION == 1
MAX_X_DISPLACEMENT == 60000
MIN_Y_POSITION == -7000
\* step's guard: dt > 0.5 is ignored
MAX_DT == 50

\* -------------------------------------------------------------- inputs ---
\* The x components of the drag deltas handed to move: 500 to either side.
MoveXs == {-50000, 50000}
\* Their y components: 100 up, none, 24.5 down (the books start 25 apart, so
\* one such move leaves a gap of 0.5 and a second one overshoots it).
MoveYs == {-10000, 0, 2450}
\* The frame times handed to step: 0, 0.5 and the implausibly large 0.75.
Dts == {0, 50, 75}
\* the inputs of the rubbing runs: moves pressing down, steps of 0.1 s
HotXs == {-50000, 50000}
HotYs == {2450}
HotDts == {10}
\* what the sound generator hears: the book moved 500 left, not in x, or 0.01
\* right; 0 or 16 ms after the event before; frames of 0, 16 and 100 ms
RubDxs == {-50000, 0, 1}
RubElapsed == {0, 16}
RubDts == {0, 16, 100}
\* what the cooling sound generator hears: amplitudes of 1 and 2, frames of
\* no duration and of 0.25 s
CoolingAmplitudes == {100, 200}
CoolingDts == {0, 25}
\* what the describer hears: amplitudes of 1, 3, 5, 6.9 and 9
DescriberAmplitudes == {100, 300, 500, 690, 900}
\* Math.round( Math.random() ) of an evaporating atom, and its dy
AtomDirections == {0, 1}
AtomDys == {0, 1}

\* ---------------------------------------------------------- arithmetic ---
Min(a, b) == IF a < b THEN a ELSE b
Max(a, b) == IF a > b THEN a ELSE b
Abs(a) == IF a < 0 THEN -a ELSE a
\* a / b rounded to the nearest integer (b > 0)
RoundDiv(a, b) == (2 * a + b) \div (2 * b)
\* the product of two fixed-point numbers
Mul(a, b) == RoundDiv(a * b, FP)
\* Math.floor of a fixed-point number, in whole units
Floor(a) == a \div FP

\* ------------------------------------------------------- static layout ---
\* topAtomsStructure: per layer, the number of atoms and whether the layer
\* can evaporate (the groups of a layer are summed; offsets are not modelled).
topAtomsStructure ==
  << [num |-> 30, evaporate |-> FALSE],
     [num |-> 29, evaporate |-> TRUE],
     [num |-> 29, evaporate |-> TRUE],
     [num |-> 24, evaporate |-> TRUE],
     [num |-> 9,  evaporate |-> TRUE] >>

\* addLayer: the row of atoms of layer i, an atom being <<layer, index>>.
addLayer(i) ==
  [n \in 1..Min(topAtomsStructure[i].num, MaxRowAtoms) |-> <<i, n>>]

RECURSIVE addAtoms(_)
\* addAtoms: the rows pushed to toEvaporateSample by layers 1..i, in order.
addAtoms(i) ==
  IF i = 0 THEN << >>
  ELSE IF topAtomsStructure[i].evaporate
       THEN Append(addAtoms(i - 1), addLayer(i))
       ELSE addAtoms(i - 1)

toEvaporateSample == addAtoms(Len(topAtomsStructure))

\* --------------------------------------------------------------- state ---
VARIABLES
  temperature,                 \* temperatureProperty
  position,                    \* positionProperty, [x, y]
  distance,                    \* distanceProperty
  bottomOffset,                \* bottomOffsetProperty
  atomRowsToEvaporate,         \* atomRowsToEvaporateProperty
  contact,                     \* contactProperty
  hint,                        \* hintProperty
  newStep,                     \* newStepProperty
  scheduledEvaporationAmount,  \* this.scheduledEvaporationAmount
  toEvaporate,                 \* this.toEvaporate: rows of atoms
  minYPos,                     \* this.minYPos: << >> while undefined
  call,                        \* the last call made: its name and argument
  pre,                         \* the model's fields when that call was made
  calls,                       \* the number of calls made so far
  rub,                         \* the BookRubSoundGenerator's fields
  rubPre,                      \* those fields when the last call was made
  cooling,                     \* the CoolingSoundGenerator's fields
  coolingPre,                  \* those fields when the last call was made
  describer,                   \* the TemperatureIncreasingDescriber's fields
  describerPre,                \* those fields when the last call was made
  atom                         \* the fields of one AtomNode of the top book

vars == << temperature, position, distance, bottomOffset, atomRowsToEvaporate,
           contact, hint, newStep, scheduledEvaporationAmount, toEvaporate,
           minYPos, call, pre, calls, rub, rubPre, cooling, coolingPre,
           describer, describerPre, atom >>

\* The model object as one record.
cur ==
  [ temperature |-> temperature, position |-> position, distance |-> distance,
    bottomOffset |-> bottomOffset, atomRowsToEvaporate |-> atomRowsToEvaporate,
    contact |-> contact, hint |-> hint, newStep |-> newStep,
    scheduledEvaporationAmount |-> scheduledEvaporationAmount,
    toEvaporate |-> toEvaporate, minYPos |-> minYPos ]

Assign(m) ==
  /\ temperature' = m.temperature
  /\ position' = m.position
  /\ distance' = m.distance
  /\ bottomOffset' = m.bottomOffset
  /\ atomRowsToEvaporate' = m.atomRowsToEvaporate
  /\ contact' = m.contact
  /\ hint' = m.hint
  /\ newStep' = m.newStep
  /\ scheduledEvaporationAmount' = m.scheduledEvaporationAmount
  /\ toEvaporate' = m.toEvaporate
  /\ minYPos' = m.minYPos

Holds(m) ==
  /\ temperature = m.temperature
  /\ position = m.position
  /\ distance = m.distance
  /\ bottomOffset = m.bottomOffset
  /\ atomRowsToEvaporate = m.atomRowsToEvaporate
  /\ contact = m.contact
  /\ hint = m.hint
  /\ newStep = m.newStep
  /\ scheduledEvaporationAmount = m.scheduledEvaporationAmount
  /\ toEvaporate = m.toEvaporate
  /\ minYPos = m.minYPos

\* ----------------------------------------------------------- listeners ---
\* Each operator below maps a model record to the set of records the code can
\* leave (a set because evaporate draws an atom at random).

\* row with its i-th element spliced out
splice(row, i) == [k \in 1..(Len(row) - 1) |-> IF k < i THEN row[k] ELSE row[k + 1]]

\* setDistance with the contact listener comparing the distance itself to 0
setDistanceNoFloor(m, d) ==
  IF d = m.distance THEN m
  ELSE [m EXCEPT !.distance = d, !.contact = (d <= 0)]

\* distanceProperty.set(d), with the contact listener it notifies on a change
setDistance(m, d) ==
  IF d = m.distance THEN m
  ELSE [m EXCEPT !.distance = d, !.contact = (Floor(d) <= 0)]

\* evaporate() taking its atom from the first row of the queue, not the last
evaporateFirstRow(m) ==
  LET n == Len(m.toEvaporate)
      m1 == IF n > 0 /\ Len(m.toEvaporate[n]) = 0
            THEN [setDistance([m EXCEPT !.toEvaporate = SubSeq(@, 1, n - 1)],
                              m.distance + DISTANCE_Y)
                    EXCEPT !.atomRowsToEvaporate = n - 1]
            ELSE m
      n1 == Len(m1.toEvaporate)
  IN IF n1 > 0 /\ Len(m1.toEvaporate[1]) > 0
     THEN { [m1 EXCEPT !.toEvaporate[1] = splice(@, i),
                       !.scheduledEvaporationAmount = @ + EVAPORATION_AMPLITUDE_REDUCTION]
            : i \in 1..Len(m1.toEvaporate[1]) }
     ELSE {m1}

\* evaporate() popping the last row while it still holds one atom
evaporatePopsEarly(m) ==
  LET n == Len(m.toEvaporate)
      m1 == IF n > 0 /\ Len(m.toEvaporate[n]) <= 1
            THEN [setDistance([m EXCEPT !.toEvaporate = SubSeq(@, 1, n - 1)],
                              m.distance + DISTANCE_Y)
                    EXCEPT !.atomRowsToEvaporate = n - 1]
            ELSE m
      n1 == Len(m1.toEvaporate)
  IN IF n1 > 0 /\ Len(m1.toEvaporate[n1]) > 0
     THEN { [m1 EXCEPT !.toEvaporate[n1] = splice(@, i),
                       !.scheduledEvaporationAmount = @ + EVAPORATION_AMPLITUDE_REDUCTION]
            : i \in 1..Len(m1.toEvaporate[n1]) }
     ELSE {m1}

\* evaporate() filling an emptied last row from the sample instead of popping it
evaporateRefills(m) ==
  LET n == Len(m.toEvaporate)
      m1 == IF n > 0 /\ Len(m.toEvaporate[n]) = 0
            THEN [m EXCEPT !.toEvaporate[n] = toEvaporateSample[n]]
            ELSE m
      n1 == Len(m1.toEvaporate)
  IN IF n1 > 0 /\ Len(m1.toEvaporate[n1]) > 0
     THEN { [m1 EXCEPT !.toEvaporate[n1] = splice(@, i),
                       !.scheduledEvaporationAmount = @ + EVAPORATION_AMPLITUDE_REDUCTION]
            : i \in 1..Len(m1.toEvaporate[n1]) }
     ELSE {m1}

\* evaporate() popping whether or not a row is left to pop
evaporateBlindPop(m) ==
  LET n == Len(m.toEvaporate)
      m1 == IF n = 0 \/ Len(m.toEvaporate[n]) = 0
            THEN [setDistance([m EXCEPT !.toEvaporate = SubSeq(@, 1, n - 1)],
                              m.distance + DISTANCE_Y)
                    EXCEPT !.atomRowsToEvaporate = Len(SubSeq(m.toEvaporate, 1, n - 1))]
            ELSE m
      n1 == Len(m1.toEvaporate)
  IN IF n1 > 0 /\ Len(m1.toEvaporate[n1]) > 0
     THEN { [m1 EXCEPT !.toEvaporate[n1] = splice(@, i),
                       !.scheduledEvaporationAmount = @ + EVAPORATION_AMPLITUDE_REDUCTION]
            : i \in 1..Len(m1.toEvaporate[n1]) }
     ELSE {m1}

\* evaporate() popping a row without publishing the number of rows left
evaporateStaleRowCount(m) ==
  LET n == Len(m.toEvaporate)
      m1 == IF n > 0 /\ Len(m.toEvaporate[n]) = 0
            THEN setDistance([m EXCEPT !.toEvaporate = SubSeq(@, 1, n - 1)],
                             m.distance + DISTANCE_Y)
            ELSE m
      n1 == Len(m1.toEvaporate)
  IN IF n1 > 0 /\ Len(m1.toEvaporate[n1]) > 0
     THEN { [m1 EXCEPT !.toEvaporate[n1] = splice(@, i),
                       !.scheduledEvaporationAmount = @ + EVAPORATION_AMPLITUDE_REDUCTION]
            : i \in 1..Len(m1.toEvaporate[n1]) }
     ELSE {m1}

\* evaporate() raising the distance of a popped row past the contact listener
evaporateSilentDistance(m) ==
  LET n == Len(m.toEvaporate)
      m1 == IF n > 0 /\ Len(m.toEvaporate[n]) = 0
            THEN [m EXCEPT !.toEvaporate = SubSeq(@, 1, n - 1),
                           !.distance = @ + DISTANCE_Y,
                           !.atomRowsToEvaporate = n - 1]
            ELSE m
      n1 == Len(m1.toEvaporate)
  IN IF n1 > 0 /\ Len(m1.toEvaporate[n1]) > 0
     THEN { [m1 EXCEPT !.toEvaporate[n1] = splice(@, i),
                       !.scheduledEvaporationAmount = @ + EVAPORATION_AMPLITUDE_REDUCTION]
            : i \in 1..Len(m1.toEvaporate[n1]) }
     ELSE {m1}

\* evaporate()
evaporate(m) ==
  LET n == Len(m.toEvaporate)
      m1 == IF n > 0 /\ Len(m.toEvaporate[n]) = 0
            THEN [setDistance([m EXCEPT !.toEvaporate = SubSeq(@, 1, n - 1)],
                              m.distance + DISTANCE_Y)
                    EXCEPT !.atomRowsToEvaporate = n - 1]
            ELSE m
      n1 == Len(m1.toEvaporate)
  IN IF n1 > 0 /\ Len(m1.toEvaporate[n1]) > 0
     THEN { [m1 EXCEPT !.toEvaporate[n1] = splice(@, i),
                       !.scheduledEvaporationAmount = @ + EVAPORATION_AMPLITUDE_REDUCTION]
            : i \in 1..Len(m1.toEvaporate[n1]) }
     ELSE {m1}

\* setTemperature notifying its listener of a value that did not change
setTemperatureAlwaysNotifies(m, t) ==
  LET m1 == [m EXCEPT !.temperature = t]
  IN IF t > AMPLITUDE_EVAPORATE THEN evaporate(m1) ELSE {m1}

\* temperatureProperty.set(t), with the evaporation check it notifies on a change
setTemperature(m, t) ==
  IF t = m.temperature THEN {m}
  ELSE LET m1 == [m EXCEPT !.temperature = t]
       IN IF t > AMPLITUDE_EVAPORATE THEN evaporate(m1) ELSE {m1}

\* heating with the multiplier taken as 0.075
heatingTenfold(dx) == RoundDiv(dx * HEATING_MULTIPLIER, 1000)

\* the heat of a horizontal displacement dx
heating(dx) == RoundDiv(dx * HEATING_MULTIPLIER, 10000)

\* setPosition with the heating not clamped at the maximum amplitude
setPositionNoMax(m, p) ==
  LET m1 == setDistance([m EXCEPT !.position = p],
                        m.distance - (p.y - m.position.y))
  IN IF m1.contact
     THEN setTemperature(m1, m1.temperature + heating(Abs(p.x - m.position.x)))
     ELSE {m1}

\* setPosition with the heating taken from the signed displacement
setPositionSigned(m, p) ==
  LET m1 == setDistance([m EXCEPT !.position = p],
                        m.distance - (p.y - m.position.y))
  IN IF m1.contact
     THEN setTemperature(m1, Min(m1.temperature + heating(p.x - m.position.x),
                                 AMPLITUDE_MAX))
     ELSE {m1}

\* setPosition with the vertical displacement added to the distance
setPositionDistanceUp(m, p) ==
  LET m1 == setDistance([m EXCEPT !.position = p],
                        m.distance + (p.y - m.position.y))
  IN IF m1.contact
     THEN setTemperature(m1, Min(m1.temperature + heating(Abs(p.x - m.position.x)),
                                 AMPLITUDE_MAX))
     ELSE {m1}

\* setPosition heating by the contact found before the distance was updated
setPositionContactBefore(m, p) ==
  LET m1 == setDistance([m EXCEPT !.position = p],
                        m.distance - (p.y - m.position.y))
  IN IF m.contact
     THEN setTemperature(m1, Min(m1.temperature + heating(Abs(p.x - m.position.x)),
                                 AMPLITUDE_MAX))
     ELSE {m1}

\* positionProperty.set(p), with the listener that moves distance and heats
setPosition(m, p) ==
  LET m1 == setDistance([m EXCEPT !.position = p],
                        m.distance - (p.y - m.position.y))
  IN IF m1.contact
     THEN setTemperature(m1, Min(m1.temperature + heating(Abs(p.x - m.position.x)),
                                 AMPLITUDE_MAX))
     ELSE {m1}

\* ---------------------------------------------------------- operations ---
\* init() rebuilding only the rows the queue still holds
initExistingRows(m) ==
  [m EXCEPT !.toEvaporate = SubSeq(toEvaporateSample, 1, Len(m.toEvaporate)),
            !.atomRowsToEvaporate = Len(m.toEvaporate),
            !.minYPos = << MIN_Y_POSITION >>]

\* init()
init(m) ==
  [m EXCEPT !.toEvaporate = toEvaporateSample,
            !.atomRowsToEvaporate = Len(toEvaporateSample),
            !.minYPos = << MIN_Y_POSITION >>]

\* A field that may be undefined holds << >> then, and << value >> otherwise.
undefined == << >>

\* the fields a constructed model holds (the constructor, then the view's addAtoms)
constructed ==
  [ temperature |-> AMPLITUDE_MIN, position |-> [x |-> 0, y |-> 0],
    distance |-> DISTANCE_INITIAL, bottomOffset |-> 0, atomRowsToEvaporate |-> 0,
    contact |-> FALSE, hint |-> TRUE, newStep |-> FALSE,
    scheduledEvaporationAmount |-> 0, toEvaporate |-> << >>,
    minYPos |-> undefined ]

\* a < b in JavaScript, where b may be undefined (the comparison is then false)
jsLess(a, b) == IF b = undefined THEN FALSE ELSE a < b[1]

\* limitY without the limit to the gap between the books
limitYNoGap(m, vy) ==
  IF jsLess(m.position.y + vy, m.minYPos)
  THEN m.minYPos[1] - m.position.y
  ELSE vy

\* move's limit on the vertical motion vy: not beyond the gap between the
\* books, nor above the minimum y position
limitY(m, vy) ==
  IF vy > m.distance THEN m.distance
  ELSE IF jsLess(m.position.y + vy, m.minYPos)
       THEN m.minYPos[1] - m.position.y
       ELSE vy

\* limitX with no limit
limitXNone(m, vx) == vx

\* move's limit on the horizontal motion vx: within MAX_X_DISPLACEMENT of the centre
limitX(m, vx) ==
  IF m.position.x + vx > MAX_X_DISPLACEMENT
  THEN MAX_X_DISPLACEMENT - m.position.x
  ELSE IF m.position.x + vx < -MAX_X_DISPLACEMENT
       THEN -MAX_X_DISPLACEMENT - m.position.x
       ELSE vx

\* move( v )
move(m, v) ==
  LET m0 == [m EXCEPT !.hint = FALSE]
      \* check bottom offset
      absorb == m0.bottomOffset > 0 /\ v.y < 0
      m1 == IF absorb THEN [m0 EXCEPT !.bottomOffset = @ + v.y] ELSE m0
      vy1 == IF absorb THEN 0 ELSE v.y
      \* the part of a downward motion beyond the gap goes to the bottom offset
      m2 == IF vy1 > m1.distance
            THEN [m1 EXCEPT !.bottomOffset = @ + vy1 - m1.distance]
            ELSE m1
      vy2 == limitY(m1, vy1)
      vx == limitX(m2, v.x)
  IN setPosition(m2, [x |-> m2.position.x + vx, y |-> m2.position.y + vy2])

\* cooled with the rate added instead of subtracted
cooledHeats(m, dt) ==
  Max(AMPLITUDE_MIN,
      Mul(m.temperature - m.scheduledEvaporationAmount, FP + Mul(dt, COOLING_RATE)))

\* cooled without the cooling scheduled by evaporation
cooledIgnoresScheduled(m, dt) ==
  Max(AMPLITUDE_MIN, Mul(m.temperature, FP - Mul(dt, COOLING_RATE)))

\* the temperature step( dt ) sets
cooled(m, dt) ==
  Max(AMPLITUDE_MIN,
      Mul(m.temperature - m.scheduledEvaporationAmount, FP - Mul(dt, COOLING_RATE)))

\* step with its guard at twice the time
stepLateGuard(m, dt) ==
  IF dt > 2 * MAX_DT THEN {m}
  ELSE { [m1 EXCEPT !.scheduledEvaporationAmount = 0]
         : m1 \in setTemperature([m EXCEPT !.newStep = ~@], cooled(m, dt)) }

\* step setting the temperature twice: less the scheduled amount, then cooled
stepCoolsTwice(m, dt) ==
  IF dt > MAX_DT THEN {m}
  ELSE UNION { { [m2 EXCEPT !.scheduledEvaporationAmount = 0]
                 : m2 \in setTemperature(m1, cooled(m, dt)) }
               : m1 \in setTemperature([m EXCEPT !.newStep = ~@],
                                       m.temperature - m.scheduledEvaporationAmount) }

\* step( dt )
step(m, dt) ==
  IF dt > MAX_DT THEN {m}
  ELSE { [m1 EXCEPT !.scheduledEvaporationAmount = 0]
         : m1 \in setTemperature([m EXCEPT !.newStep = ~@], cooled(m, dt)) }

\* the Property.reset() calls of reset() after the first two, then init()
resetRest(m) ==
  init([setDistance(m, DISTANCE_INITIAL)
          EXCEPT !.bottomOffset = 0, !.atomRowsToEvaporate = 0,
                 !.contact = FALSE, !.hint = TRUE, !.newStep = FALSE])

\* reset()
reset(m) ==
  UNION { { resetRest(m2) : m2 \in setPosition(m1, [x |-> 0, y |-> 0]) }
          : m1 \in setTemperature(m, AMPLITUDE_MIN) }

\* the drag handler's end callback
dragEnd(m) == [m EXCEPT !.bottomOffset = 0]

\* ----------------------------------------------- BookRubSoundGenerator ---
\* The sound generator of the rubbing books (src/unnamed/part_000) listens to
\* the model's positionProperty and contactProperty.  Its times are in
\* milliseconds, its velocity in FP units per pixel/second, its levels in FP
\* units.
DIRECTION_SWITCH_LOCKOUT_TIME == 30
STILLNESS_TIME == 64
FRICTION_SOUND_CENTER_FREQUENCY == 1000
\* 0.15, in FP units
FRICTION_SOUND_VARIATION == 15
maxOutputLevel == 100

\* A double is a record: NaN, or a number; an infinite one is +/-INFINITY.
INFINITY == 2000000000
NaN == [nan |-> TRUE, value |-> 0]
Number(n) == [nan |-> FALSE, value |-> n]
\* v > 0, v < 0, v === 0 and Math.abs( v ) > 0 of a double (all false of NaN)
isPositive(v) == ~v.nan /\ v.value > 0
isNegative(v) == ~v.nan /\ v.value < 0
isZero(v) == ~v.nan /\ v.value = 0
isMoving(v) == ~v.nan /\ Abs(v.value) > 0

\* dx / elapsed in pixels per second: dx over an infinite time is 0, over no
\* time it is infinite, and 0 / 0 is NaN
quotient(dx, elapsed) ==
  IF elapsed = INFINITY THEN Number(0)
  ELSE IF elapsed = 0
       THEN IF dx = 0 THEN NaN
            ELSE IF dx > 0 THEN Number(INFINITY) ELSE Number(-INFINITY)
       ELSE Number(RoundDiv(dx * 1000, elapsed))

\* Math.min( Math.pow( a, 0.25 ), 1 ) of a >= 0, rounded down to the unit
minPow(a) ==
  IF a >= FP THEN FP
  ELSE CHOOSE r \in 0..FP : r^4 <= a * 1000000 /\ (r + 1)^4 > a * 1000000

\* the generator's fields after construction: elapsed is the time since
\* timeOfLastXVelocityUpdate, which starts at -Infinity
rubConstructed ==
  [ topBookXVelocity |-> Number(0), elapsed |-> INFINITY,
    rubSoundLockedOut |-> FALSE, rubSoundLockoutCounter |-> 0,
    outputLevel |-> 0, centerFrequency |-> FRICTION_SOUND_CENTER_FREQUENCY ]

\* the listener of the multilink: sets the output level from the velocity,
\* the contact c and the lockout
setOutputLevel(r, c) ==
  [r EXCEPT !.outputLevel =
     IF c /\ isMoving(r.topBookXVelocity) /\ ~r.rubSoundLockedOut
     THEN Mul(maxOutputLevel, minPow(Abs(r.topBookXVelocity.value)))
     ELSE 0]

\* rubSoundLockedOutProperty.set( b )
setLockedOut(r, c, b) ==
  IF r.rubSoundLockedOut = b THEN r
  ELSE setOutputLevel([r EXCEPT !.rubSoundLockedOut = b], c)

\* the listener of topBookXVelocityProperty: a change of direction retunes
\* the filter and starts the lockout
directionSwitched(r, c, previousVelocity) ==
  IF isPositive(r.topBookXVelocity)
     /\ (isZero(previousVelocity) \/ isNegative(previousVelocity))
  THEN [setLockedOut(r, c, TRUE)
          EXCEPT !.centerFrequency =
                   Mul(FRICTION_SOUND_CENTER_FREQUENCY, FP + FRICTION_SOUND_VARIATION),
                 !.rubSoundLockoutCounter = DIRECTION_SWITCH_LOCKOUT_TIME]
  ELSE IF isNegative(r.topBookXVelocity)
          /\ (isZero(previousVelocity) \/ isPositive(previousVelocity))
       THEN [setLockedOut(r, c, TRUE)
               EXCEPT !.centerFrequency =
                        Mul(FRICTION_SOUND_CENTER_FREQUENCY, FP - FRICTION_SOUND_VARIATION),
                      !.rubSoundLockoutCounter = DIRECTION_SWITCH_LOCKOUT_TIME]
       ELSE r

\* topBookXVelocityProperty.set( v ): on a change (NaN always is one) the
\* direction listener runs, then the multilink's
setVelocity(r, c, v) ==
  IF v = r.topBookXVelocity /\ ~v.nan THEN r
  ELSE setOutputLevel(directionSwitched([r EXCEPT !.topBookXVelocity = v], c,
                                        r.topBookXVelocity), c)

\* the listener of the position: the book moved by dx in x
positionChanged(r, c, dx) ==
  [setVelocity(r, c, quotient(dx, r.elapsed)) EXCEPT !.elapsed = 0]

\* contactChanged without the multilink on the contact
contactUnheard(r, c) == r

\* the multilink's listener run for a change of the contact to c
contactChanged(r, c) == setOutputLevel(r, c)

\* the generator's step clearing the lockout only below zero
soundStepKeepsLockout(r, c, dt) ==
  LET r1 == IF isMoving(r.topBookXVelocity) /\ r.elapsed > STILLNESS_TIME
            THEN [setVelocity(r, c, Number(0)) EXCEPT !.elapsed = 0]
            ELSE r
      r2 == [r1 EXCEPT !.rubSoundLockoutCounter = Max(@ - dt, 0)]
  IN IF r1.rubSoundLockoutCounter > 0
     THEN IF r2.rubSoundLockoutCounter < 0 THEN setLockedOut(r2, c, FALSE) ELSE r2
     ELSE r1

\* BookRubSoundGenerator's step( dt )
soundStep(r, c, dt) ==
  LET r1 == IF isMoving(r.topBookXVelocity) /\ r.elapsed > STILLNESS_TIME
            THEN [setVelocity(r, c, Number(0)) EXCEPT !.elapsed = 0]
            ELSE r
      r2 == [r1 EXCEPT !.rubSoundLockoutCounter = Max(@ - dt, 0)]
  IN IF r1.rubSoundLockoutCounter > 0
     THEN IF r2.rubSoundLockoutCounter = 0 THEN setLockedOut(r2, c, FALSE) ELSE r2
     ELSE r1

\* the clock moves on by d
tick(r, d) == [r EXCEPT !.elapsed = IF @ = INFINITY THEN @ ELSE @ + d]

\* ----------------------------------------------- CoolingSoundGenerator ---
\* The sound generator of the cooling books
\* (src/js/friction/view/FrictionKeyboardHelpContentPanel.js, lines 306-436)
\* listens to the amplitude, which is the model's temperatureProperty.  Its
\* times and rates are in FP units.
AMPLITUDE_AVERAGING_ARRAY_LENGTH == 10
COOLING_SOUND_DELAY == 25
COOLING_SOUND_DURATION == 200
coolingMaxOutputLevel == 100

\* a + b of two doubles
plus(a, b) ==
  IF a.nan \/ b.nan THEN NaN
  ELSE IF Abs(a.value) = INFINITY
       THEN IF Abs(b.value) = INFINITY /\ a.value # b.value THEN NaN ELSE a
       ELSE IF Abs(b.value) = INFINITY THEN b
            ELSE Number(a.value + b.value)

\* a / b of a double a and a number b >= 0
over(a, b) ==
  IF a.nan THEN NaN
  ELSE IF Abs(a.value) = INFINITY
       THEN a
       ELSE IF b = 0
            THEN IF a.value = 0 THEN NaN
                 ELSE IF a.value > 0 THEN Number(INFINITY) ELSE Number(-INFINITY)
            ELSE Number(RoundDiv(a.value, b))

\* amplitudeChangeRateHistory.reduce( ( total, num ) => total + num )
RECURSIVE total(_)
total(h) ==
  IF Len(h) = 1 THEN h[1] ELSE plus(total(SubSeq(h, 1, Len(h) - 1)), h[Len(h)])

\* the generator's fields after construction; continuousCoolingTime is
\* declared without a value
coolingConstructed ==
  [ mostRecentAmplitudeValue |-> 0, previousAmplitudeValue |-> 0,
    amplitudeChangeRateHistory |-> << >>, continuousCoolingTime |-> undefined,
    targetOutputLevel |-> 0, outputLevel |-> 0, isPlaying |-> TRUE ]

\* the listener of the amplitude
amplitudeChanged(g, amplitude) == [g EXCEPT !.mostRecentAmplitudeValue = amplitude]

\* the history after a push of rate and the splice that keeps its length
pushed(h, rate) ==
  LET h1 == Append(h, rate)
  IN IF Len(h1) > AMPLITUDE_AVERAGING_ARRAY_LENGTH THEN SubSeq(h1, 2, Len(h1)) ELSE h1

\* the average the step takes of a history: its total over the window length
averageChangeRate(h) == over(total(h), AMPLITUDE_AVERAGING_ARRAY_LENGTH)

\* the cooling time after a step: undefined + dt is NaN, which like
\* undefined compares false with everything
cooledFor(g, h, dt) ==
  IF Len(h) = AMPLITUDE_AVERAGING_ARRAY_LENGTH /\ isNegative(averageChangeRate(h))
  THEN IF g.continuousCoolingTime = undefined THEN undefined
       ELSE << g.continuousCoolingTime[1] + dt >>
  ELSE << 0 >>

\* targetLevel with the sound starting as soon as the cooling does
targetLevelNoDelay(t, average) ==
  IF jsLess(0, t)
  THEN Mul(coolingMaxOutputLevel,
           RoundDiv((COOLING_SOUND_DURATION
                       - Min(Max(t[1] - COOLING_SOUND_DELAY, 0), COOLING_SOUND_DURATION))
                    * Min(Abs(average.value), FP),
                    COOLING_SOUND_DURATION))
  ELSE 0

\* the level a step aims at, given the cooling time t and the average rate
targetLevel(t, average) ==
  IF jsLess(COOLING_SOUND_DELAY, t)
  THEN Mul(coolingMaxOutputLevel,
           RoundDiv((COOLING_SOUND_DURATION
                       - Min(t[1] - COOLING_SOUND_DELAY, COOLING_SOUND_DURATION))
                    * Min(Abs(average.value), FP),
                    COOLING_SOUND_DURATION))
  ELSE 0

\* CoolingSoundGenerator's step( dt )
coolingStep(g, dt) ==
  LET rate == over(Number((g.mostRecentAmplitudeValue - g.previousAmplitudeValue) * FP), dt)
      h == pushed(g.amplitudeChangeRateHistory, rate)
      t == cooledFor(g, h, dt)
      level == targetLevel(t, averageChangeRate(h))
      g1 == [g EXCEPT !.previousAmplitudeValue = g.mostRecentAmplitudeValue,
                      !.amplitudeChangeRateHistory = h,
                      !.continuousCoolingTime = t,
                      !.targetOutputLevel = level]
  IN IF g.outputLevel # level
     THEN [g1 EXCEPT !.outputLevel = level, !.isPlaying = (level > 0)]
     ELSE g1

\* -------------------------------------- TemperatureIncreasingDescriber ---
\* The describer that alerts when the temperature increases
\* (src/js/friction/view/describers/TemperatureIncreasingDescriber.js)
\* listens to the amplitude, which is the model's temperatureProperty.  Its
\* two delays are query parameters whose values the source does not hold;
\* they are counted here in ticks of phet.joist.elapsedTime.
DRAG_SESSION_THRESHOLD == 2
ALERT_TIME_DELAY == 1
TEMPERATURE_ALERT_THRESHOLD == 150
\* INCREASING.length
INCREASING_LENGTH == 3

\* no alert, the increase alert with an entry of INCREASING, the maximum alert
noAlert == [kind |-> "none", entry |-> 0]
increaseAlert(i) == [kind |-> "increase", entry |-> i]
maxTempAlert == [kind |-> "max", entry |-> 0]

\* the describer's fields after construction with the amplitude a, and with
\* them the clock it reads, the timeouts it has set (the times they are due)
\* and the alert the last call emitted.  Two more fields are history the
\* actions keep: the time of the last endDrag, which is 0 before the first
\* one, and the number of increase alerts since the drag session began.
describerOf(a) ==
  [ timeOfLastDrag |-> 0, initialAmplitude |-> a, alertIndex |-> -1,
    tooSoonForNextAlert |-> FALSE, elapsedTime |-> 0, timeouts |-> << >>,
    alerted |-> noAlert, lastEndDrag |-> 0, increasesInSession |-> 0 ]

describerConstructed == describerOf(AMPLITUDE_MIN)

\* alert( alertFunction ), the function emitting the alert a, with the
\* amplitude at amplitude
alert(d, a, amplitude) ==
  [d EXCEPT !.alerted = a,
            !.tooSoonForNextAlert = TRUE,
            !.initialAmplitude = amplitude,
            !.timeouts = Append(@, d.elapsedTime + ALERT_TIME_DELAY)]

\* alertIncrease()
alertIncrease(d, amplitude) ==
  alert([d EXCEPT !.alertIndex = @ + 1],
        increaseAlert(Min(d.alertIndex + 1, INCREASING_LENGTH - 1)), amplitude)

\* alertMaxTemp()
alertMaxTemp(d, amplitude) == alert(d, maxTempAlert, amplitude)

\* amplitudeListener without the test of tooSoonForNextAlert
amplitudeListenerAnyTime(d, amplitude) ==
  IF amplitude - d.initialAmplitude > TEMPERATURE_ALERT_THRESHOLD
  THEN IF amplitude < AMPLITUDE_EVAPORATE
       THEN alertIncrease(d, amplitude)
       ELSE alertMaxTemp(d, amplitude)
  ELSE d

\* amplitudeListener
amplitudeListener(d, amplitude) ==
  IF ~d.tooSoonForNextAlert
     /\ amplitude - d.initialAmplitude > TEMPERATURE_ALERT_THRESHOLD
  THEN IF amplitude < AMPLITUDE_EVAPORATE
       THEN alertIncrease(d, amplitude)
       ELSE alertMaxTemp(d, amplitude)
  ELSE d

\* startDrag starting a new session with every drag
startDragAlwaysNew(d, amplitude) ==
  [d EXCEPT !.alertIndex = -1, !.initialAmplitude = amplitude]

\* startDrag(), with the amplitude at amplitude
startDrag(d, amplitude) ==
  IF d.elapsedTime - d.timeOfLastDrag > DRAG_SESSION_THRESHOLD
  THEN [d EXCEPT !.alertIndex = -1, !.initialAmplitude = amplitude]
  ELSE d

\* endDrag()
endDrag(d) == [d EXCEPT !.timeOfLastDrag = d.elapsedTime]

\* the callback of the i-th timeout set, which is then no longer pending
timedOut(d, i) ==
  [d EXCEPT !.tooSoonForNextAlert = FALSE,
            !.timeouts = SubSeq(@, 1, i - 1) \o SubSeq(@, i + 1, Len(@))]

\* the call begins: nothing alerted yet
quiet(d) == [d EXCEPT !.alerted = noAlert]

\* ------------------------------------------------------------ AtomNode ---
\* One atom of the top book that can evaporate
\* (src/js/friction/view/book/CoverNode.js), in the units of the view; the
\* model's width is a parameter of its constructor, and the atom was made
\* with options.x = atomX and options.y = 0.
width == 125
steps == 250
atomX == 60

\* the coordinate, kept at -MaxAtomDistance once it is beyond it: the
\* handler compares x0 with 4 * width only
kept(c) == Max(c, -MaxAtomDistance)

\* the fields after construction; handlerLinked tells whether this.handler
\* is a listener of newStepProperty
atomConstructed ==
  [ x0 |-> atomX, y0 |-> 0, isEvaporated |-> FALSE, visible |-> TRUE,
    handlerLinked |-> FALSE, dx |-> 0, dy |-> 0 ]

\* this.handler, the evaporation motion handler
handler(a) ==
  LET x == a.x0 + a.dx
      far == x > 4 * width
  IN [a EXCEPT !.x0 = kept(x), !.y0 = kept(a.y0 - a.dy),
               !.handlerLinked = ~far,
               !.visible = IF far THEN FALSE ELSE @]

\* newStepProperty notifies the atom's handler, if it is linked
notified(a) == IF a.handlerLinked THEN handler(a) ELSE a

\* AtomNode.evaporate(), with Math.round( Math.random() ) = direction and
\* the step dy; link() calls the handler at once
atomEvaporate(a, direction, dy) ==
  handler([a EXCEPT !.isEvaporated = TRUE,
                    !.dx = (4 * width * (2 * direction - 1)) \div (2 * steps),
                    !.dy = dy,
                    !.handlerLinked = TRUE])

\* AtomNode.reset()
atomReset(a) ==
  [a EXCEPT !.x0 = atomX, !.y0 = 0, !.handlerLinked = FALSE,
            !.visible = TRUE, !.isEvaporated = FALSE]

\* ------------------------------------------------------------- actions ---
Called(op, arg) ==
  /\ calls < MaxCalls
  /\ calls' = calls + 1
  /\ call' = [op |-> op, arg |-> arg]
  /\ pre' = cur
  /\ UNCHANGED << rub, rubPre, cooling, coolingPre, describer, describerPre, atom >>

Init ==
  /\ Holds(init(constructed))
  /\ call = [op |-> "init", arg |-> 0]
  /\ pre = constructed
  /\ calls = 0
  /\ rub = rubConstructed
  /\ rubPre = rubConstructed
  /\ cooling = coolingConstructed
  /\ coolingPre = coolingConstructed
  /\ describer = describerConstructed
  /\ describerPre = describerConstructed
  /\ atom = atomConstructed

Move ==
  \E vx \in MoveXs, vy \in MoveYs :
    \E m \in move(cur, [x |-> vx, y |-> vy]) :
      /\ Assign(m)
      /\ Called("move", [x |-> vx, y |-> vy])

Step ==
  \E dt \in Dts :
    \E m \in step(cur, dt) :
      /\ Assign(m)
      /\ Called("step", dt)

Reset ==
  \E m \in reset(cur) :
    /\ Assign(m)
    /\ Called("reset", 0)

DragEnd ==
  /\ Assign(dragEnd(cur))
  /\ Called("dragEnd", 0)

Next == Move \/ Step \/ Reset \/ DragEnd

Spec == Init /\ [][Next]_vars

\* --------------------------------------------- rubbing until exhaustion ---
\* A second specification of the same model: the book is rubbed and the
\* steps are short, so that the calls within the bound empty the whole queue.
CalledHot(op, arg) ==
  /\ calls < MaxHotCalls
  /\ calls' = calls + 1
  /\ call' = [op |-> op, arg |-> arg]
  /\ pre' = cur
  /\ UNCHANGED << rub, rubPre, cooling, coolingPre, describer, describerPre, atom >>

HotMove ==
  \E vx \in HotXs, vy \in HotYs :
    \E m \in move(cur, [x |-> vx, y |-> vy]) :
      /\ Assign(m)
      /\ CalledHot("move", [x |-> vx, y |-> vy])

HotStep ==
  \E dt \in HotDts :
    \E m \in step(cur, dt) :
      /\ Assign(m)
      /\ CalledHot("step", dt)

NextHot == HotMove \/ HotStep

SpecHot == Init /\ [][NextHot]_vars

\* ------------------------------------- what the sound generator hears ---
\* A third specification: positionProperty and contactProperty change as the
\* generator's environment pleases, time passes, and the generator is stepped.
\* The model's other fields stay as they are.
Unheard ==
  UNCHANGED << temperature, distance, bottomOffset, atomRowsToEvaporate, hint,
               newStep, scheduledEvaporationAmount, toEvaporate, minYPos >>

Heard(op, arg) ==
  /\ call' = [op |-> op, arg |-> arg]
  /\ pre' = cur
  /\ rubPre' = rub
  /\ UNCHANGED << cooling, coolingPre, describer, describerPre, atom >>
  /\ Unheard

\* positionProperty changes by dx in x (within the model's range), el
\* milliseconds after the event before
RubPosition ==
  \E dx \in RubDxs, el \in RubElapsed :
    LET ax == limitX(cur, dx) IN
      /\ calls < MaxRubCalls
      /\ calls' = calls + 1
      /\ position' = [x |-> position.x + ax, y |-> position.y]
      /\ contact' = contact
      /\ rub' = positionChanged(tick(rub, el), contact, ax)
      /\ Heard("position", [dx |-> dx, el |-> el])

\* contactProperty changes
RubContact ==
  /\ calls < MaxRubCalls
  /\ calls' = calls + 1
  /\ contact' = ~contact
  /\ position' = position
  /\ rub' = contactChanged(rub, ~contact)
  /\ Heard("contact", ~contact)

\* dt milliseconds pass and the generator is stepped with dt
RubStepOf(dt) ==
  /\ rub.elapsed = INFINITY \/ rub.elapsed + dt <= MaxElapsed
  /\ rub' = soundStep(tick(rub, dt), contact, dt)
  /\ UNCHANGED << calls, position, contact >>
  /\ Heard("soundStep", dt)

RubStep == \E dt \in RubDts : RubStepOf(dt)

\* a step in which time passes
RubStepForward == \E dt \in RubDts \ {0} : RubStepOf(dt)

NextRub == RubPosition \/ RubContact \/ RubStep

SpecRub == Init /\ [][NextRub]_vars

\* The generator is stepped with every frame: time always passes again.
SpecRubFair == SpecRub /\ WF_vars(RubStepForward)

\* ------------------------------------------- calls made before init() ---
\* A specification that starts from the constructed model, before the view
\* has called init(): minYPos is still undefined and the queue empty.
InitNew ==
  /\ Holds(constructed)
  /\ call = [op |-> "new", arg |-> 0]
  /\ pre = constructed
  /\ calls = 0
  /\ rub = rubConstructed
  /\ rubPre = rubConstructed
  /\ cooling = coolingConstructed
  /\ coolingPre = coolingConstructed
  /\ describer = describerConstructed
  /\ describerPre = describerConstructed
  /\ atom = atomConstructed

\* the view's call of init()
InitCall ==
  /\ Assign(init(cur))
  /\ Called("init", 0)

NextNew == Move \/ Step \/ InitCall

SpecNew == InitNew /\ [][NextNew]_vars

\* ------------------------------ what the cooling sound generator hears ---
\* A specification of the CoolingSoundGenerator: the amplitude changes as its
\* environment pleases and the generator is stepped.
CoolingHeard(op, arg) ==
  /\ call' = [op |-> op, arg |-> arg]
  /\ pre' = cur
  /\ coolingPre' = cooling
  /\ UNCHANGED << position, distance, bottomOffset, atomRowsToEvaporate, contact,
                  hint, newStep, scheduledEvaporationAmount, toEvaporate,
                  minYPos, calls, rub, rubPre, describer, describerPre, atom >>

\* temperatureProperty changes to the amplitude a
CoolingAmplitude ==
  \E a \in CoolingAmplitudes :
    /\ a # temperature
    /\ temperature' = a
    /\ cooling' = amplitudeChanged(cooling, a)
    /\ CoolingHeard("amplitude", a)

\* the generator is stepped
CoolingStep ==
  \E dt \in CoolingDts :
    /\ dt = 0 => Len(cooling.amplitudeChangeRateHistory) < MaxZeroFrames
    /\ temperature' = temperature
    /\ cooling' = coolingStep(cooling, dt)
    /\ CoolingHeard("coolingStep", dt)

NextCooling == CoolingAmplitude \/ CoolingStep

SpecCooling == Init /\ [][NextCooling]_vars

\* ------------------------------------------- what the describer hears ---
\* A specification of the TemperatureIncreasingDescriber: the amplitude
\* changes as its environment pleases, drags start and end, time passes and
\* the timeouts that are due fire.
DescriberHeard(op, arg) ==
  /\ call' = [op |-> op, arg |-> arg]
  /\ pre' = cur
  /\ describerPre' = describer
  /\ UNCHANGED << position, distance, bottomOffset, atomRowsToEvaporate, contact,
                  hint, newStep, scheduledEvaporationAmount, toEvaporate,
                  minYPos, calls, rub, rubPre, cooling, coolingPre, atom >>

\* history: one more increase alert in the session
counted(d) ==
  IF d.alerted.kind = "increase"
  THEN [d EXCEPT !.increasesInSession = @ + 1]
  ELSE d

\* history: a drag starting now begins a new drag session, being more than
\* the threshold after the last endDrag
newSession(d) == d.elapsedTime - d.lastEndDrag > DRAG_SESSION_THRESHOLD

\* temperatureProperty changes to the amplitude a
DescriberAmplitude ==
  \E a \in DescriberAmplitudes :
    /\ a # temperature
    /\ temperature' = a
    /\ describer' = counted(amplitudeListener(quiet(describer), a))
    /\ DescriberHeard("amplitude", a)

DescriberStartDrag ==
  /\ temperature' = temperature
  /\ describer' = [startDrag(quiet(describer), temperature) EXCEPT
                    !.increasesInSession =
                      IF newSession(describer) THEN 0 ELSE @]
  /\ DescriberHeard("startDrag", 0)

DescriberEndDrag ==
  /\ temperature' = temperature
  /\ describer' = [endDrag(quiet(describer)) EXCEPT
                    !.lastEndDrag = describer.elapsedTime]
  /\ DescriberHeard("endDrag", 0)

\* a timeout that is due fires
DescriberTimeout ==
  \E i \in 1..Len(describer.timeouts) :
    /\ describer.timeouts[i] <= describer.elapsedTime
    /\ temperature' = temperature
    /\ describer' = timedOut(quiet(describer), i)
    /\ DescriberHeard("timeout", i)

\* phet.joist.elapsedTime moves on by a tick
DescriberTick ==
  /\ describer.elapsedTime < MaxDescriberTime
  /\ temperature' = temperature
  /\ describer' = [quiet(describer) EXCEPT !.elapsedTime = @ + 1]
  /\ DescriberHeard("tick", 0)

NextDescriber ==
  \/ DescriberAmplitude
  \/ DescriberStartDrag
  \/ DescriberEndDrag
  \/ DescriberTimeout
  \/ DescriberTick

SpecDescriber == Init /\ [][NextDescriber]_vars

\* ------------------------------------------------- an atom flying off ---
\* A specification of one AtomNode: the model evaporates it, every step of
\* the model toggles newStepProperty, and a reset of the model resets it.
AtomHeard(op, arg) ==
  /\ call' = [op |-> op, arg |-> arg]
  /\ pre' = cur
  /\ UNCHANGED << temperature, position, distance, bottomOffset,
                  atomRowsToEvaporate, contact, hint,
                  scheduledEvaporationAmount, toEvaporate, minYPos, calls,
                  rub, rubPre, cooling, coolingPre, describer, describerPre >>

\* the model's evaporate() takes the atom from its row
AtomEvaporate ==
  \E direction \in AtomDirections, dy \in AtomDys :
    /\ ~atom.isEvaporated
    /\ newStep' = newStep
    /\ atom' = atomEvaporate(atom, direction, dy)
    /\ AtomHeard("atomEvaporate", direction)

\* the model's step() toggles newStepProperty
AtomNewStep ==
  /\ newStep' = ~newStep
  /\ atom' = notified(atom)
  /\ AtomHeard("newStep", 0)

\* the model's reset(): newStepProperty.reset() notifies if the value was
\* true, then init() resets the atom
AtomReset ==
  /\ newStep' = FALSE
  /\ atom' = atomReset(IF newStep THEN notified(atom) ELSE atom)
  /\ AtomHeard("atomReset", 0)

NextAtom == AtomEvaporate \/ AtomNewStep \/ AtomReset

SpecAtom == Init /\ [][NextAtom]_vars

\* the model is stepped again and again
SpecAtomFair == SpecAtom /\ WF_vars(AtomNewStep)

\* ------------------------------------------------- the last call made ---
AfterStep == call.op = "step"
AfterMove == call.op = "move"
\* the displacement the last move applied, after its clamping
appliedDx == position.x - pre.position.x
appliedDy == position.y - pre.position.y
\* the number of atoms held by the rows of a queue
RECURSIVE atomCount(_)
atomCount(q) == IF Len(q) = 0 THEN 0 ELSE Len(q[Len(q)]) + atomCount(SubSeq(q, 1, Len(q) - 1))

\* ------------------------------------------------------------- claims ---

\* C1: a step(dt) with dt > 0.5 is a no-op: temperature, position, distance,
\* contact, the evaporation queue, newStep and scheduledEvaporationAmount (and
\* every other field of the model) are as they were before the call.
C1_LargeDtStepIsNoOp ==
  (AfterStep /\ call.arg > MAX_DT) =>
    /\ temperature = pre.temperature
    /\ position = pre.position
    /\ distance = pre.distance
    /\ contact = pre.contact
    /\ toEvaporate = pre.toEvaporate
    /\ newStep = pre.newStep
    /\ scheduledEvaporationAmount = pre.scheduledEvaporationAmount
    /\ cur = pre

\* An ignored step made while the atoms are hot and a cooling amount is pending:
\* a step that was not ignored would have changed all of it.
C1_Witness ==
  /\ AfterStep /\ call.arg > MAX_DT
  /\ temperature > AMPLITUDE_EVAPORATE
  /\ scheduledEvaporationAmount > 0

C3_TemperatureWithinAmplitude ==
  /\ temperature >= AMPLITUDE_MIN
  /\ temperature <= AMPLITUDE_MAX

\* A move whose heating would have passed AMPLITUDE_MAX and was clamped to it.
C3_Witness ==
  /\ AfterMove
  /\ pre.temperature < AMPLITUDE_MAX
  /\ pre.temperature + heating(Abs(appliedDx)) > AMPLITUDE_MAX
  /\ temperature = AMPLITUDE_MAX

\* C4: after every operation contact equals (floor(distance) <= 0).
C4_ContactFollowsDistance ==
  contact = (Floor(distance) <= 0)

\* The books are in contact across a gap that is positive but floors to 0.
C4_Witness ==
  /\ AfterMove
  /\ distance > 0
  /\ contact
  /\ ~pre.contact

C6_StepNeverHeats ==
  AfterStep => temperature <= pre.temperature

\* A step that cooled the atoms.
C6_Witness ==
  /\ AfterStep
  /\ call.arg > 0
  /\ temperature < pre.temperature

\* C7 as stated: whenever contact is true and move is called with a nonzero x
\* component, temperature strictly increases unless it is already at
\* AMPLITUDE_MAX, and it never exceeds AMPLITUDE_MAX.
C7_AsStated ==
  (AfterMove /\ pre.contact /\ call.arg.x # 0) =>
    /\ temperature > pre.temperature \/ pre.temperature = AMPLITUDE_MAX
    /\ temperature <= AMPLITUDE_MAX

\* C7 as amended: whenever the books are in contact once the move's vertical
\* displacement has been applied (floor of the resulting distance <= 0) and the
\* x displacement the move applies after clamping is nonzero, temperature strictly
\* increases unless it is already at AMPLITUDE_MAX, and it never exceeds
\* AMPLITUDE_MAX.
C7_HeatsWhenMovedInContact ==
  (AfterMove /\ Floor(pre.distance - appliedDy) <= 0 /\ appliedDx # 0) =>
    /\ temperature > pre.temperature \/ pre.temperature = AMPLITUDE_MAX
    /\ temperature <= AMPLITUDE_MAX

\* A move made in contact that heated the atoms.
C7_Witness ==
  /\ AfterMove
  /\ pre.contact
  /\ Floor(pre.distance - appliedDy) <= 0
  /\ appliedDx # 0
  /\ temperature > pre.temperature

\* C8: from temperature T with contact true, one move({x: d, y: 0}) that keeps
\* position.x within the x bounds yields min(T + |d| * HEATING_MULTIPLIER,
\* AMPLITUDE_MAX); from AMPLITUDE_MIN with d = 500 that is 4.75.
C8_HeatingFormula ==
  ( /\ AfterMove
    /\ pre.contact
    /\ call.arg.y = 0
    /\ pre.position.x + call.arg.x <= MAX_X_DISPLACEMENT
    /\ pre.position.x + call.arg.x >= -MAX_X_DISPLACEMENT ) =>
    /\ temperature =
         Min(pre.temperature + (2 * Abs(call.arg.x) * HEATING_MULTIPLIER + 10000) \div 20000,
             AMPLITUDE_MAX)
    /\ (pre.temperature = AMPLITUDE_MIN /\ Abs(call.arg.x) = 50000) => temperature = 475

\* The scenario of the claim: T = AMPLITUDE_MIN, contact, a move of 500 along x.
C8_Witness ==
  /\ AfterMove
  /\ pre.contact
  /\ pre.temperature = AMPLITUDE_MIN
  /\ call.arg.y = 0
  /\ Abs(call.arg.x) = 50000
  /\ Abs(appliedDx) = 50000
  /\ temperature = 475

\* C9: a step(dt) with dt <= 0.5 sets temperature to
\* max(AMPLITUDE_MIN, (T - s) * (1 - dt * COOLING_RATE)), T and s being the
\* temperature and scheduledEvaporationAmount before the call, and leaves
\* scheduledEvaporationAmount at 0.
C9_CoolingFormula ==
  (AfterStep /\ call.arg <= MAX_DT) =>
    /\ temperature =
         Max(AMPLITUDE_MIN,
             RoundDiv((pre.temperature - pre.scheduledEvaporationAmount)
                        * (FP - RoundDiv(call.arg * COOLING_RATE, FP)), FP))
    /\ scheduledEvaporationAmount = 0

\* A step of exactly 0.5 with a cooling amount pending, whose own temperature
\* update evaporated an atom.
C9_Witness ==
  /\ AfterStep
  /\ call.arg = MAX_DT
  /\ pre.scheduledEvaporationAmount > 0
  /\ temperature > AMPLITUDE_EVAPORATE
  /\ atomCount(toEvaporate) < atomCount(pre.toEvaporate)

\* C10: an operation other than reset never adds a row to the evaporation queue,
\* and it evaporates at most one atom; whenever it changes the temperature to a
\* value above the evaporation limit and a row is left, the last row of the queue
\* holds exactly one atom less than that row held before, and no other row lost
\* an atom.
C10_EvaporationTakesOneAtom ==
  (call.op \in {"move", "step", "dragEnd"}) =>
    LET n == Len(toEvaporate)
        evaporation == temperature # pre.temperature /\ temperature > AMPLITUDE_EVAPORATE
    IN /\ n <= Len(pre.toEvaporate)
       /\ atomRowsToEvaporate <= pre.atomRowsToEvaporate
       /\ \A i \in 1..(n - 1) : toEvaporate[i] = pre.toEvaporate[i]
       /\ (evaporation /\ n > 0) => Len(toEvaporate[n]) = Len(pre.toEvaporate[n]) - 1
       /\ (~evaporation /\ n > 0) => toEvaporate[n] = pre.toEvaporate[n]
       /\ ~evaporation => n = Len(pre.toEvaporate)

\* An evaporation that found the active row used up, moved to the next row and
\* took its first atom from it.
C10_Witness ==
  /\ call.op \in {"move", "step"}
  /\ Len(toEvaporate) = Len(pre.toEvaporate) - 1
  /\ Len(toEvaporate) > 0
  /\ Len(toEvaporate[Len(toEvaporate)]) = Len(pre.toEvaporate[Len(toEvaporate)]) - 1

\* the calls that run between two resets
BetweenResets == call.op \in {"move", "step", "dragEnd"}
\* the atoms a row holds, and the atoms a queue holds
rowAtoms(row) == { row[k] : k \in 1..Len(row) }
atoms(q) == UNION { rowAtoms(q[i]) : i \in 1..Len(q) }
\* the rows popped since the queue was last rebuilt
rowsPopped == Len(toEvaporateSample) - Len(toEvaporate)

\* C11: evaporation is row-major. Every row of the queue other than the last
\* still equals its row of the sample; a call changes no row but the last one
\* left; and a call pops a row only if that row was the last and was empty
\* before the call (so a row loses its first atom only once every row after it
\* has been emptied and popped).
C11_EvaporationIsRowMajor ==
  /\ Len(toEvaporate) <= Len(toEvaporateSample)
  /\ \A i \in 1..(Len(toEvaporate) - 1) : toEvaporate[i] = toEvaporateSample[i]
  /\ BetweenResets =>
       /\ Len(toEvaporate) \in {Len(pre.toEvaporate), Len(pre.toEvaporate) - 1}
       /\ Len(toEvaporate) < Len(pre.toEvaporate) =>
            pre.toEvaporate[Len(pre.toEvaporate)] = << >>
       /\ \A i \in 1..Len(toEvaporate) :
            toEvaporate[i] # pre.toEvaporate[i] => i = Len(toEvaporate)

\* a row above the first one evaporated has lost an atom, the rows after it
\* are popped and the rows before it are whole
C11_Witness ==
  /\ BetweenResets
  /\ Len(toEvaporate) \in 2..(Len(toEvaporateSample) - 1)
  /\ Len(toEvaporate[Len(toEvaporate)]) < Len(toEvaporateSample[Len(toEvaporate)])

\* C12: between two resets the atoms of the queue only shrink. Each row holds
\* atoms of its row of the sample, each once, and a call other than reset
\* leaves no atom in the queue that was not there before it.
C12_QueueOnlyShrinks ==
  /\ Len(toEvaporate) <= Len(toEvaporateSample)
  /\ \A i \in 1..Len(toEvaporate) :
       /\ rowAtoms(toEvaporate[i]) \subseteq rowAtoms(toEvaporateSample[i])
       /\ Cardinality(rowAtoms(toEvaporate[i])) = Len(toEvaporate[i])
  /\ BetweenResets => atoms(toEvaporate) \subseteq atoms(pre.toEvaporate)

\* a call that found atoms already evaporated, and evaporated another
C12_Witness ==
  /\ BetweenResets
  /\ atoms(pre.toEvaporate) # atoms(toEvaporateSample)
  /\ atoms(toEvaporate) # atoms(pre.toEvaporate)

\* C13: after reset() the temperature is AMPLITUDE_MIN, the position (0, 0),
\* the distance DISTANCE_INITIAL, contact false, the queue has the rows of the
\* sample with as many atoms each, and atomRowsToEvaporate is that row count.
C13_ResetRestoresModel ==
  call.op = "reset" =>
    /\ temperature = AMPLITUDE_MIN
    /\ position = [x |-> 0, y |-> 0]
    /\ distance = DISTANCE_INITIAL
    /\ contact = FALSE
    /\ Len(toEvaporate) = Len(toEvaporateSample)
    /\ \A i \in 1..Len(toEvaporateSample) :
         Len(toEvaporate[i]) = Len(toEvaporateSample[i])
    /\ atomRowsToEvaporate = Len(toEvaporateSample)

\* a reset of a hot model in contact, off centre, with a row popped
C13_Witness ==
  /\ call.op = "reset"
  /\ pre.temperature > AMPLITUDE_EVAPORATE
  /\ pre.contact
  /\ pre.position.x # 0 /\ pre.position.y # 0
  /\ Len(pre.toEvaporate) < Len(toEvaporateSample)

\* C14: every evaporation of an atom schedules a cooling of
\* EVAPORATION_AMPLITUDE_REDUCTION that the next step(dt <= 0.5) subtracts, and
\* none is discarded: after a move or a step the amount pending is the amount
\* left pending by the call (none after a step that ran, all of it otherwise)
\* plus one reduction for each atom the call evaporated.
C14_AsStated ==
  call.op \in {"move", "step"} =>
    scheduledEvaporationAmount =
      (IF AfterStep /\ call.arg <= MAX_DT THEN 0 ELSE pre.scheduledEvaporationAmount)
      + EVAPORATION_AMPLITUDE_REDUCTION
          * (atomCount(pre.toEvaporate) - atomCount(toEvaporate))

\* C15: the queue changes only in response to a change of the temperature to
\* a value above AMPLITUDE_EVAPORATE. A call other than reset that leaves the
\* temperature as it was, or at most AMPLITUDE_EVAPORATE, leaves the queue and
\* the published row count as they were, and moves the distance by no more
\* than the vertical displacement it applied.
C15_QueueChangesOnlyWhenHot ==
  (BetweenResets /\ (temperature = pre.temperature \/ temperature <= AMPLITUDE_EVAPORATE)) =>
    /\ toEvaporate = pre.toEvaporate
    /\ atomRowsToEvaporate = pre.atomRowsToEvaporate
    /\ distance = pre.distance - appliedDy

\* a move rubbing in contact at the maximum amplitude: the temperature is
\* above the limit, did not change, and nothing evaporated
C15_Witness ==
  /\ AfterMove
  /\ contact
  /\ appliedDx # 0
  /\ pre.temperature = AMPLITUDE_MAX
  /\ temperature = AMPLITUDE_MAX
  /\ toEvaporate = pre.toEvaporate

\* C16: once the queue is empty, a change of the temperature to a value above
\* AMPLITUDE_EVAPORATE evaporates nothing: the queue stays empty, the row
\* count 0, the distance moves only by the vertical displacement applied, and
\* nothing is scheduled; and in every state each operation of the model,
\* whatever its input, runs to an outcome.
C16_ExhaustedQueueIsInert ==
  /\ ( /\ call.op \in {"move", "step"}
       /\ pre.toEvaporate = << >>
       /\ temperature # pre.temperature
       /\ temperature > AMPLITUDE_EVAPORATE ) =>
       /\ toEvaporate = << >>
       /\ atomRowsToEvaporate = 0
       /\ distance = pre.distance - appliedDy
       /\ scheduledEvaporationAmount =
            IF AfterStep THEN 0 ELSE pre.scheduledEvaporationAmount
  /\ \A vx \in MoveXs, vy \in MoveYs : move(cur, [x |-> vx, y |-> vy]) # {}
  /\ \A dt \in Dts : step(cur, dt) # {}
  /\ reset(cur) # {}
  /\ evaporate(cur) # {}

\* the temperature changed to a value above the limit with the queue empty
C16_Witness ==
  /\ call.op \in {"move", "step"}
  /\ pre.toEvaporate = << >>
  /\ pre.atomRowsToEvaporate = 0
  /\ temperature # pre.temperature
  /\ temperature > AMPLITUDE_EVAPORATE

C18_RowCountIsQueueLength ==
  atomRowsToEvaporate = Len(toEvaporate)

\* a step popped a row and the published count followed
C18_Witness ==
  /\ AfterStep
  /\ Len(toEvaporate) = Len(pre.toEvaporate) - 1
  /\ atomRowsToEvaporate = pre.atomRowsToEvaporate - 1

\* the last call was heard by the sound generator
AfterHeard == call.op \in {"position", "contact", "soundStep"}
\* the x velocity changed sign, or left rest, in the last call
flipped ==
  \/ isPositive(rub.topBookXVelocity)
     /\ ~rubPre.topBookXVelocity.nan /\ rubPre.topBookXVelocity.value <= 0
  \/ isNegative(rub.topBookXVelocity)
     /\ ~rubPre.topBookXVelocity.nan /\ rubPre.topBookXVelocity.value >= 0

\* C19: after every position update, contact change and step of the
\* BookRubSoundGenerator, the target output level is 0 whenever the books are
\* not in contact, the x velocity is 0 or the lockout is set; it is non-zero
\* only when in contact, moving and not locked out; and it never exceeds
\* maxOutputLevel.
C19_OutputLevelFollowsState ==
  /\ (~contact \/ isZero(rub.topBookXVelocity) \/ rub.rubSoundLockedOut) =>
       rub.outputLevel = 0
  /\ rub.outputLevel # 0 =>
       contact /\ isMoving(rub.topBookXVelocity) /\ ~rub.rubSoundLockedOut
  /\ rub.outputLevel >= 0
  /\ rub.outputLevel <= maxOutputLevel

\* the books came into contact while the book was moving slowly, out of the
\* lockout: the level is set, below the maximum
C19_Witness ==
  /\ call.op = "contact"
  /\ contact
  /\ rubPre.outputLevel = 0
  /\ rub.outputLevel > 0
  /\ rub.outputLevel < maxOutputLevel

\* C20: each direction flip of the x velocity sets the lockout flag and
\* restarts the counter at DIRECTION_SWITCH_LOCKOUT_TIME; nothing but a step
\* clears the flag, and a step(dt) leaves the counter at max(counter - dt, 0),
\* so the flag falls once the steps since the last flip add up to that time;
\* between calls the flag is set exactly when the counter is positive; and
\* with steps in which time passes, a lockout always ends.
C20_LockoutSafety ==
  /\ rub.rubSoundLockedOut <=> rub.rubSoundLockoutCounter > 0
  /\ rub.rubSoundLockoutCounter <= DIRECTION_SWITCH_LOCKOUT_TIME
  /\ (call.op = "position" /\ flipped) =>
       /\ rub.rubSoundLockedOut
       /\ rub.rubSoundLockoutCounter = DIRECTION_SWITCH_LOCKOUT_TIME
  /\ (call.op \in {"position", "contact"} /\ ~flipped) =>
       /\ rub.rubSoundLockedOut = rubPre.rubSoundLockedOut
       /\ rub.rubSoundLockoutCounter = rubPre.rubSoundLockoutCounter
  /\ call.op = "soundStep" =>
       rub.rubSoundLockoutCounter = Max(rubPre.rubSoundLockoutCounter - call.arg, 0)

C20_LockoutEnds ==
  /\ []C20_LockoutSafety
  /\ rub.rubSoundLockedOut ~> ~rub.rubSoundLockedOut

\* a lockout started by a flip has been ended by a step
C20_Witness ==
  /\ call.op = "soundStep"
  /\ call.arg < DIRECTION_SWITCH_LOCKOUT_TIME
  /\ rubPre.rubSoundLockedOut
  /\ ~rub.rubSoundLockedOut

\* the distance a move leaves once its vertical displacement is applied
distanceMoved == pre.distance - appliedDy
\* |dx| * HEATING_MULTIPLIER, to the nearest unit
expectedHeat(dx) == (2 * Abs(dx) * HEATING_MULTIPLIER + 10000) \div 20000
\* a call between resets popped a row
poppedRow == BetweenResets /\ Len(toEvaporate) < Len(pre.toEvaporate)

\* C24 as stated: a move that leaves the book out of contact once its own
\* vertical displacement is applied leaves the temperature unchanged, and a
\* move that leaves it in contact heats by |dx_applied| * 0.0075.
C24_AsStated ==
  AfterMove =>
    temperature = IF Floor(distanceMoved) > 0 THEN pre.temperature
                  ELSE pre.temperature + expectedHeat(appliedDx)

\* C24 as amended: heating in a move is decided by the contact after the
\* move's own vertical displacement and by the applied x displacement: out
\* of contact then, the temperature is unchanged (even if contact was true at
\* the call); in contact then, it is min(T + |dx_applied| * 0.0075,
\* AMPLITUDE_MAX); and a move whose x is fully clamped adds no heat.
C24_HeatingDecidedAfterDisplacement ==
  AfterMove =>
    /\ temperature = IF Floor(distanceMoved) > 0 THEN pre.temperature
                     ELSE Min(pre.temperature + expectedHeat(appliedDx), AMPLITUDE_MAX)
    /\ appliedDx = 0 => temperature = pre.temperature

\* a move made in contact that rubbed along x while lifting the book out of
\* contact: no heat
C24_Witness ==
  /\ AfterMove
  /\ pre.contact
  /\ Floor(distanceMoved) > 0
  /\ appliedDx # 0
  /\ pre.temperature < AMPLITUDE_MAX
  /\ temperature = pre.temperature

\* C25: whenever evaporate() pops an exhausted row, contact is false
\* afterwards and the distance at least DISTANCE_Y; and a move heats only if
\* the distance it leaves by its own displacement has floor <= 0.
C25_NoContactAfterPop ==
  /\ poppedRow => (~contact /\ distance >= DISTANCE_Y)
  /\ (AfterMove /\ temperature > pre.temperature) => Floor(distanceMoved) <= 0

\* a move in contact heated, popped a row and so lost the contact
C25_Witness ==
  /\ AfterMove
  /\ poppedRow
  /\ pre.contact
  /\ temperature > pre.temperature
  /\ ~contact

\* C26: step(dt), for any dt, never changes position, bottomOffset or hint,
\* evaporates at most one atom, and changes distance or contact only when the
\* temperature it sets is above AMPLITUDE_EVAPORATE and the last row was empty,
\* the distance then growing by exactly DISTANCE_Y.
C26_StepFrame ==
  AfterStep =>
    /\ position = pre.position
    /\ bottomOffset = pre.bottomOffset
    /\ hint = pre.hint
    /\ atomCount(pre.toEvaporate) - atomCount(toEvaporate) \in {0, 1}
    /\ (distance # pre.distance \/ contact # pre.contact) =>
         /\ temperature > AMPLITUDE_EVAPORATE
         /\ Len(pre.toEvaporate) > 0
         /\ pre.toEvaporate[Len(pre.toEvaporate)] = << >>
         /\ Len(toEvaporate) = Len(pre.toEvaporate) - 1
         /\ distance = pre.distance + DISTANCE_Y

\* a step of a model in contact popped a row: the distance grew by
\* DISTANCE_Y and the contact was lost
C26_Witness ==
  /\ AfterStep
  /\ pre.contact
  /\ ~contact
  /\ distance = pre.distance + DISTANCE_Y
  /\ atomCount(toEvaporate) = atomCount(pre.toEvaporate) - 1

\* C27: reset() returns the model to exactly the state of a freshly
\* constructed and initialised model, scheduledEvaporationAmount included.
C27_AsStated ==
  call.op = "reset" => cur = init(constructed)

\* C28: bottomOffset is never negative: an upward move made while it is
\* positive reduces it by at most its value, and the drag end sets it to 0.
C28_AsStated ==
  /\ bottomOffset >= 0
  /\ call.op = "dragEnd" => bottomOffset = 0

\* C29: move enforces position.y >= MIN_Y_POSITION in every state of a
\* constructed model, whether or not init() has been called before.
C29_AsStated ==
  position.y >= MIN_Y_POSITION

\* C21: after every step of the CoolingSoundGenerator the target output
\* level is above 0 only if the history holds exactly
\* AMPLITUDE_AVERAGING_ARRAY_LENGTH rates, their average is negative and the
\* continuous cooling time is strictly between COOLING_SOUND_DELAY and
\* COOLING_SOUND_DELAY + COOLING_SOUND_DURATION; the cooling time is 0 after
\* a step that leaves the history short or the average not negative; the
\* history never holds more rates than that length; and the target level
\* never exceeds the maximum output level.
C21_CoolingSoundLevel ==
  LET h == cooling.amplitudeChangeRateHistory
      t == cooling.continuousCoolingTime
  IN /\ Len(h) <= AMPLITUDE_AVERAGING_ARRAY_LENGTH
     /\ cooling.targetOutputLevel >= 0
     /\ cooling.targetOutputLevel <= coolingMaxOutputLevel
     /\ call.op = "coolingStep" =>
          /\ cooling.targetOutputLevel > 0 =>
               /\ Len(h) = AMPLITUDE_AVERAGING_ARRAY_LENGTH
               /\ isNegative(averageChangeRate(h))
               /\ t # undefined
               /\ t[1] > COOLING_SOUND_DELAY
               /\ t[1] < COOLING_SOUND_DELAY + COOLING_SOUND_DURATION
          /\ (Len(h) < AMPLITUDE_AVERAGING_ARRAY_LENGTH
                \/ ~isNegative(averageChangeRate(h))) => t = << 0 >>

\* a step that raised the level from 0, with a full history of rates
C21_Witness ==
  /\ call.op = "coolingStep"
  /\ coolingPre.targetOutputLevel = 0
  /\ cooling.targetOutputLevel > 0
  /\ Len(cooling.amplitudeChangeRateHistory) = AMPLITUDE_AVERAGING_ARRAY_LENGTH

C22_WitnessSameSession ==
  /\ call.op = "startDrag"
  /\ ~newSession(describerPre)
  /\ describerPre.alertIndex >= 0
  /\ describerPre.initialAmplitude # temperature

\* a drag that started a new session after alerts
C22_WitnessNewSession ==
  /\ call.op = "startDrag"
  /\ newSession(describerPre)
  /\ describerPre.alertIndex >= 0
  /\ describerPre.initialAmplitude # temperature

\* C23: a change of the amplitude emits an alert only if
\* tooSoonForNextAlert is false and the amplitude is more than 1.5 above the
\* baseline, the increase alert below 7 and the maximum alert otherwise; an
\* alert sets the baseline to the amplitude; at most one timeout is pending
\* and tooSoonForNextAlert is true exactly while one is, so that no alert is
\* emitted until the timeout has fired.
C23_AlertsKeptApart ==
  /\ describer.alerted # noAlert
       => /\ call.op = "amplitude"
          /\ ~describerPre.tooSoonForNextAlert
          /\ Len(describerPre.timeouts) = 0
          /\ temperature - describerPre.initialAmplitude
               > TEMPERATURE_ALERT_THRESHOLD
          /\ describer.alerted.kind
               = IF temperature < AMPLITUDE_EVAPORATE THEN "increase" ELSE "max"
          /\ describer.initialAmplitude = temperature
  /\ Len(describer.timeouts) <= 1
  /\ describer.tooSoonForNextAlert <=> Len(describer.timeouts) = 1

\* an increase of more than 1.5 that came too soon after an alert
C23_Witness ==
  /\ call.op = "amplitude"
  /\ describerPre.tooSoonForNextAlert
  /\ temperature - describerPre.initialAmplitude > TEMPERATURE_ALERT_THRESHOLD
  /\ describer.alerted = noAlert

\* the maximum alert, after the timeout of an increase alert has fired
C23_WitnessMax ==
  /\ call.op = "amplitude"
  /\ describer.alerted = maxTempAlert
  /\ describer.alertIndex >= 0

\* C30: the flight of every evaporated atom ends, in both directions: after
\* finitely many notifications of newStepProperty its handler is unlinked and
\* the atom is hidden; and after reset() no handler of an evaporated atom is
\* linked.
C30_AsStated ==
  atom.handlerLinked ~>
    (~atom.handlerLinked /\ (~atom.visible \/ call.op = "atomReset"))

\* the flight to the right ends
C30_FlightToTheRightEnds ==
  (atom.handlerLinked /\ atom.dx > 0) ~>
    (~atom.handlerLinked /\ (~atom.visible \/ call.op = "atomReset"))

\* the handler is linked while the atom flies only, and no handler is linked
\* after reset()
C30_ResetUnlinks ==
  /\ call.op = "atomReset" => ~atom.handlerLinked /\ ~atom.isEvaporated
  /\ atom.handlerLinked => atom.isEvaporated /\ atom.visible

\* an atom flying to the left, far beyond the left edge, its handler linked
C30_FlyingLeftForever ==
  /\ atom.handlerLinked
  /\ atom.dx < 0
  /\ atom.x0 = -MaxAtomDistance

\* an atom that flew to the right and was hidden
C30_LandedRight ==
  /\ ~atom.handlerLinked
  /\ ~atom.visible
  /\ atom.x0 > 4 * width

=============================================================================
